---- MODULE Spec2Model ----
(***************************************************************************)
(* Model of collect.py: a fleet of stream pollers (stream_data), the sink  *)
(* (write_to_file), the group runner (all_streams) and the restart loop of *)
(* __main__.                                                               *)
(*                                                                         *)
(* All tasks run on one asyncio event loop thread.  requests.get is a      *)
(* blocking call, so a task that has started a poll iteration holds the    *)
(* thread until it reaches one of its two awaits (asyncio.sleep).          *)
(*                                                                         *)
(* Spec follows the fleet of all_streams (two of its streams), SpecPoller  *)
(* one stream_data task for every cooldown it can be called with.          *)
(***************************************************************************)
EXTENDS Integers, Sequences, FiniteSets, TLC

\* ---------------------------------------------------------------- bounds
MaxPolls       == 2   \* payloads received over one execution of the fleet
MaxPollerPolls == 4   \* payloads received by the task of the single poller
MaxFleets      == 2   \* calls of asyncio.run(all_streams())
MaxDays        == 2   \* calendar days the clock may reach
MaxMarker      == 2   \* largest marker a provider publishes

\* ------------------------------------------------------------- constants
DefaultCooldown == 15

\* cooldown= arguments of two of the StreamParams(...) calls in all_streams
ConfiguredCooldown == [bird |-> 60, veoride |-> 0]

\* the stream of the single-poller specification
PollerName == "veoride"

\* cooldown arguments a StreamParams / a stream_data call is tried with
CooldownInputs == {-1, 0, 60}

Markers == 0..MaxMarker
Keys    == {"last_updated", "lastUpdated"}

\* a parsed response body: a dict that may or may not hold each marker key
Payloads == UNION {[K -> Markers] : K \in SUBSET Keys}

\* write_to_file returns, or mkdir/open raises OSError before anything is
\* written
WriteOutcomes == {"ok", "error"}

VARIABLES
    window,        \* datetime.now().hour < 22
    day,           \* datetime.now().strftime("%Y%m%d")
    cfg,           \* cooldown arguments written in the stream_params list
    orch,          \* position of __main__: "idle", "running", "closing"
    fleet,         \* number of asyncio.run(all_streams()) calls so far
    stream_params, \* per stream, the cooldown field of its StreamParams
    pc,            \* per stream, the position of its stream_data task
    last_updated,  \* per stream, the local last_updated of its task
    running,       \* the task that holds the event loop thread in a fetch
    sleep_arg,     \* per stream, argument of its pending asyncio.sleep, in halves
    files,         \* the data/ tree: path -> content
    exc,           \* per stream, the exception its task ended with
    fetched,       \* the markers the task of the single poller has fetched
    calls,         \* per stream, the markers its current task passed to write_to_file
    polls          \* payloads received so far

vars == <<window, day, cfg, orch, fleet, stream_params, pc, last_updated,
          running, sleep_arg, files, exc, fetched, calls, polls>>

Streams == DOMAIN cfg

NoTask == "none"
Idle   == "nobody"
NoExc  == "none"

Suspended == {"start", "sleep_long", "sleep_short"}
Finished  == {"returned", "raised", "cancelled"}

\* the single-poller specification follows one task through one fleet
SinglePoller == Cardinality(Streams) = 1
PollBudget   == IF SinglePoller THEN MaxPollerPolls ELSE MaxPolls
FleetBudget  == IF SinglePoller THEN 1 ELSE MaxFleets

\* -------------------------------------------------------- pure functions

\* __post_init__ without the replacement of zero
PostInit_Keep(cooldown) == cooldown

\* StreamParams.__post_init__
PostInit(cooldown) == IF cooldown = 0 THEN DefaultCooldown ELSE cooldown

\* the alternate key is never copied
Normalize_NoCopy(data) == data

\* lines 82-83: the VeoRide edge case
Normalize(data) ==
    IF "lastUpdated" \in DOMAIN data
    THEN [k \in DOMAIN data \cup {"last_updated"} |->
             IF k = "last_updated" THEN data["lastUpdated"] ELSE data[k]]
    ELSE data

\* data.get("last_updated", 0): a missing marker reads as 0
ExtractMarker_Default(data) ==
    IF "last_updated" \in DOMAIN data THEN <<data["last_updated"]>> ELSE <<0>>

\* data["last_updated"]: <<value>>, or << >> for the KeyError
ExtractMarker(data) ==
    IF "last_updated" \in DOMAIN data THEN <<data["last_updated"]>> ELSE << >>

\* >= in place of >
IsNew_OrEqual(marker, last) == marker >= last

\* != in place of >
IsNew_NotEqual(marker, last) == marker # last

\* line 85
IsNew(marker, last) == marker > last

\* last_updated is not advanced
NewLast_Keep(marker, last) == last

\* line 86
NewLast(marker, last) == marker

\* the whole cooldown is slept
LongSleep_Cooldown(cooldown) == 2 * cooldown

\* argument of the sleep of line 92, counted in halves of a unit
LongSleep(cooldown) == 2 * (cooldown - 1)

\* argument of the sleep of line 96 (0.5), counted in halves of a unit
ShortSleep == 1

\* await asyncio.sleep(delay): the time the task stays suspended; with
\* delay <= 0 the task only yields to the loop once
SleepDuration(delay) == IF delay <= 0 THEN 0 ELSE delay

\* lines 50 and 54: the file a snapshot goes to
OutPath(d, stream_name, marker) == <<d, stream_name, marker>>

\* lines 50-56: open(path, "w") creates or truncates, json.dump writes the dict
WriteToFile(fs, data, stream_name, marker, d, outcome) ==
    LET path == OutPath(d, stream_name, marker) IN
    IF outcome = "ok"
    THEN [p \in DOMAIN fs \cup {path} |-> IF p = path THEN data ELSE fs[p]]
    ELSE fs

\* lines 82-96 for one response: what the iteration decides
PollResult(payload, last) ==
    LET data == Normalize(payload)
        m    == ExtractMarker(data)
    IN  IF m = << >>
        THEN [kind |-> "KeyError", data |-> data, marker |-> 0, last |-> last]
        ELSE IF IsNew(m[1], last)
        THEN [kind |-> "new", data |-> data, marker |-> m[1],
              last |-> NewLast(m[1], last)]
        ELSE [kind |-> "stale", data |-> data, marker |-> m[1], last |-> last]

\* ------------------------------------------------------------------ Init

InitWith(c) ==
    /\ window = TRUE
    /\ day = 1
    /\ cfg = c
    /\ orch = "idle"
    /\ fleet = 0
    /\ stream_params = [s \in DOMAIN c |-> PostInit(c[s])]
    /\ pc = [s \in DOMAIN c |-> NoTask]
    /\ last_updated = [s \in DOMAIN c |-> 0]
    /\ running = Idle
    /\ sleep_arg = [s \in DOMAIN c |-> 0]
    /\ files = << >>
    /\ exc = [s \in DOMAIN c |-> NoExc]
    /\ fetched = [s \in DOMAIN c |-> << >>]
    /\ calls = [s \in DOMAIN c |-> << >>]
    /\ polls = 0

\* the program as written: the configured streams
Init == InitWith(ConfiguredCooldown)

\* one stream_data poller, for every cooldown it can be built with
InitPoller == \E c \in CooldownInputs : InitWith([s \in {PollerName} |-> c])

\* --------------------------------------------------------------- actions

\* the wall clock passes 22:00, or midnight.  The window stays closed for two
\* hours, longer than any sleep of a task (the cooldowns are 300 at most): a
\* task asleep when the window closes has woken up before midnight, unless a
\* request of another task holds the thread; nothing bounds a request
Tick ==
    /\ IF window
       THEN window' = FALSE /\ day' = day
       ELSE /\ day < MaxDays
            /\ orch = "running" =>
                  \/ running # Idle
                  \/ \A s \in Streams : pc[s] \notin {"sleep_long", "sleep_short"}
            /\ window' = TRUE
            /\ day' = day + 1
    /\ UNCHANGED <<cfg, orch, fleet, stream_params, pc, last_updated, running,
                   sleep_arg, files, exc, fetched, calls, polls>>

\* __main__ line 167 and all_streams lines 101-159: build the StreamParams
\* list, create one stream_data task per entry (line 78 when it first runs)
StartFleet ==
    /\ orch = "idle"
    /\ fleet < FleetBudget
    /\ orch' = "running"
    /\ fleet' = fleet + 1
    /\ stream_params' = [s \in Streams |-> PostInit(cfg[s])]
    /\ pc' = [s \in Streams |-> "start"]
    /\ last_updated' = [s \in Streams |-> 0]
    /\ sleep_arg' = [s \in Streams |-> 0]
    /\ exc' = [s \in Streams |-> NoExc]
    /\ fetched' = [s \in Streams |-> << >>]
    /\ calls' = [s \in Streams |-> << >>]
    /\ UNCHANGED <<window, day, cfg, running, files, polls>>

\* the loop of line 79 as while True: the window is not tested
BeginPoll_NoWindow(s) ==
    /\ orch = "running"
    /\ running = Idle
    /\ pc[s] \in Suspended
    /\ sleep_arg' = [sleep_arg EXCEPT ![s] = 0]
    /\ pc' = [pc EXCEPT ![s] = "fetching"]
    /\ running' = s
    /\ UNCHANGED <<window, day, cfg, orch, fleet, stream_params, last_updated,
                   files, exc, fetched, calls, polls>>

\* lines 79-80: a task is resumed, tests the window and starts its request.
\* Once PollBudget payloads have been received only the first iteration of a
\* task is still run
BeginPoll(s) ==
    /\ orch = "running"
    /\ running = Idle
    /\ pc[s] \in Suspended
    /\ sleep_arg' = [sleep_arg EXCEPT ![s] = 0]
    /\ IF window
       THEN /\ pc[s] # "start" => polls < PollBudget
            /\ pc' = [pc EXCEPT ![s] = "fetching"]
            /\ running' = s
       ELSE /\ pc' = [pc EXCEPT ![s] = "returned"]
            /\ UNCHANGED running
    /\ UNCHANGED <<window, day, cfg, orch, fleet, stream_params, last_updated,
                   files, exc, fetched, calls, polls>>

\* line 80: requests.get(url) or .json() raises
FetchFail(s) ==
    /\ pc[s] = "fetching"
    /\ pc' = [pc EXCEPT ![s] = "raised"]
    /\ exc' = [exc EXCEPT ![s] = "FetchError"]
    /\ running' = Idle
    /\ UNCHANGED <<window, day, cfg, orch, fleet, stream_params, last_updated,
                   sleep_arg, files, fetched, calls, polls>>

\* lines 80-96: the request returns payload; the rest of the iteration, up to
\* the await or the exception.  Once PollBudget payloads have been received
\* a request can only fail.  The history of fetched markers is kept for the
\* single poller, whose claims speak of it
FetchReturn(s, payload, outcome) ==
    /\ pc[s] = "fetching"
    /\ polls < PollBudget
    /\ running' = Idle
    /\ polls' = polls + 1
    /\ LET r == PollResult(payload, last_updated[s]) IN
       CASE r.kind = "KeyError" ->
            /\ outcome = "ok"
            /\ pc' = [pc EXCEPT ![s] = "raised"]
            /\ exc' = [exc EXCEPT ![s] = "KeyError"]
            /\ UNCHANGED <<last_updated, sleep_arg, files, calls, fetched>>
         [] r.kind = "new" ->
            /\ fetched' = IF SinglePoller
                          THEN [fetched EXCEPT ![s] = Append(@, r.marker)]
                          ELSE fetched
            /\ last_updated' = [last_updated EXCEPT ![s] = r.last]
            /\ files' = WriteToFile(files, r.data, s, r.last, day, outcome)
            /\ calls' = [calls EXCEPT ![s] = Append(@, r.last)]
            /\ IF outcome = "ok"
               THEN /\ pc' = [pc EXCEPT ![s] = "sleep_long"]
                    /\ sleep_arg' = [sleep_arg EXCEPT ![s] = LongSleep(stream_params[s])]
                    /\ UNCHANGED exc
               ELSE /\ pc' = [pc EXCEPT ![s] = "raised"]
                    /\ exc' = [exc EXCEPT ![s] = "OSError"]
                    /\ UNCHANGED sleep_arg
         [] r.kind = "stale" ->
            /\ outcome = "ok"
            /\ fetched' = IF SinglePoller
                          THEN [fetched EXCEPT ![s] = Append(@, r.marker)]
                          ELSE fetched
            /\ pc' = [pc EXCEPT ![s] = "sleep_short"]
            /\ sleep_arg' = [sleep_arg EXCEPT ![s] = ShortSleep]
            /\ UNCHANGED <<last_updated, files, calls, exc>>
    /\ UNCHANGED <<window, day, cfg, orch, fleet, stream_params>>

\* lines 154-159: gather hands the first exception of a task to all_streams,
\* which ends (logger.catch logs it); run_until_complete returns.  gather
\* queues the first step of every task when it creates them, ahead of the
\* callback of a task that fails, so every task has run up to its first await
GatherRaise ==
    /\ orch = "running"
    /\ running = Idle
    /\ \E s \in Streams : pc[s] = "raised"
    /\ \A s \in Streams : pc[s] # "start"
    /\ orch' = "closing"
    /\ UNCHANGED <<window, day, cfg, fleet, stream_params, pc, last_updated,
                   running, sleep_arg, files, exc, fetched, calls, polls>>

\* lines 154-159: every task has returned, gather and all_streams return
GatherDone ==
    /\ orch = "running"
    /\ \A s \in Streams : pc[s] = "returned"
    /\ orch' = "closing"
    /\ UNCHANGED <<window, day, cfg, fleet, stream_params, pc, last_updated,
                   running, sleep_arg, files, exc, fetched, calls, polls>>

\* the loop is closed without cancelling the pending tasks
CloseLoop_NoCancel ==
    /\ orch = "closing"
    /\ orch' = "idle"
    /\ UNCHANGED <<window, day, cfg, fleet, stream_params, pc, last_updated,
                   running, sleep_arg, files, exc, fetched, calls, polls>>

\* lines 165-170: asyncio.run cancels the tasks still pending and closes the
\* loop; an error is logged and the while True loop goes round
CloseLoop ==
    /\ orch = "closing"
    /\ pc' = [s \in Streams |-> IF pc[s] \in Suspended THEN "cancelled" ELSE pc[s]]
    /\ sleep_arg' = [s \in Streams |-> 0]
    /\ orch' = "idle"
    /\ UNCHANGED <<window, day, cfg, fleet, stream_params, last_updated,
                   running, files, exc, fetched, calls, polls>>

Next ==
    \/ Tick
    \/ StartFleet
    \/ \E s \in Streams : BeginPoll(s)
    \/ \E s \in Streams : FetchFail(s)
    \/ \E s \in Streams, payload \in Payloads, outcome \in WriteOutcomes :
          FetchReturn(s, payload, outcome)
    \/ GatherRaise
    \/ GatherDone
    \/ CloseLoop

\* the configured fleet
Spec == Init /\ [][Next]_vars

\* a single poller with an arbitrary cooldown
SpecPoller == InitPoller /\ [][Next]_vars

\* the event loop runs every callback that is ready, gather's callback
\* whenever the thread comes back to the loop, and the while True loop goes
\* on; nothing bounds the time a request takes (line 80 sets no timeout)
Fairness ==
    /\ WF_vars(StartFleet)
    /\ SF_vars(GatherRaise)
    /\ WF_vars(GatherDone)
    /\ WF_vars(CloseLoop)
    /\ \A s \in {"bird", "veoride"} : WF_vars(BeginPoll(s))

FairSpec == Spec /\ Fairness

TypeOK ==
    /\ window \in BOOLEAN
    /\ day \in 1..MaxDays
    /\ orch \in {"idle", "running", "closing"}
    /\ fleet \in 0..MaxFleets
    /\ pc \in [Streams -> {NoTask, "fetching"} \cup Suspended \cup Finished]
    /\ last_updated \in [Streams -> Markers]
    /\ running \in Streams \cup {Idle}
    /\ polls \in 0..PollBudget
    /\ stream_params \in [Streams -> Int]
    /\ exc \in [Streams -> {NoExc, "FetchError", "KeyError", "OSError"}]


\* ------------------------------------------------- helpers of the claims

StrictlyIncreasing(seq) == \A i \in 1..(Len(seq) - 1) : seq[i] < seq[i + 1]

\* this step is the return of the request of s and the rest of its iteration
Returned(s) == pc[s] = "fetching" /\ pc'[s] # "fetching" /\ exc'[s] # "FetchError"

\* this step of s calls write_to_file
Wrote(s) == Returned(s) /\ Len(calls'[s]) = Len(calls[s]) + 1

\* markers of stream s that have a file, whatever the day
Persisted(s) == {m \in Markers : \E d \in 1..MaxDays : OutPath(d, s, m) \in DOMAIN files}

\* payloads carrying marker v under one key only
Canonical(v) == [k \in {"last_updated"} |-> v]
Alternate(v) == [k \in {"lastUpdated"} |-> v]
NoMarker     == [k \in {} |-> 0]

\* ---------------------------------------------------------------- claims

\* C1 as stated: for every strictly increasing sequence of fetched markers
\* m1 < ... < mk of one poller, the sink is called exactly k times with
\* m1, ..., mk in order, and last_updated ends as mk.
C1_Original ==
    \A s \in Streams :
        StrictlyIncreasing(fetched[s]) =>
            /\ calls[s] = fetched[s]
            /\ Len(fetched[s]) > 0 => last_updated[s] = fetched[s][Len(fetched[s])]

\* C1 amended: for every strictly increasing sequence of fetched markers
\* 0 < m1 < ... < mk of one poller started with last_updated = 0, the sink is
\* called exactly k times, with m1, ..., mk in fetch order, and last_updated
\* after the k-th poll is mk.
C1_IncreasingAllPersisted ==
    \A s \in Streams :
        (StrictlyIncreasing(fetched[s]) /\ Len(fetched[s]) > 0 /\ fetched[s][1] > 0) =>
            /\ calls[s] = fetched[s]
            /\ last_updated[s] = fetched[s][Len(fetched[s])]

C1_Witness ==
    \E s \in Streams :
        fetched[s] = <<1, 2>> /\ calls[s] = <<1, 2>> /\ last_updated[s] = 2

\* C2: a poll iteration whose fetched marker is <= last_updated calls the
\* sink zero times and leaves last_updated unchanged; the fetch sequence
\* 100, 100, 100, 150 (here 1, 1, 1, 2) on a fresh poller gives exactly two
\* sink calls, for 100 and 150, and last_updated = 150.
C2_Step ==
    \A s \in Streams :
        ( /\ Returned(s)
          /\ Len(fetched'[s]) = Len(fetched[s]) + 1
          /\ fetched'[s][Len(fetched'[s])] <= last_updated[s] )
        => /\ calls'[s] = calls[s]
           /\ files' = files
           /\ last_updated'[s] = last_updated[s]

C2_Scenario ==
    \A s \in Streams :
        fetched[s] = <<1, 1, 1, 2>> => calls[s] = <<1, 2>> /\ last_updated[s] = 2

C2_StaleNotPersisted == [][C2_Step]_vars /\ []C2_Scenario

C2_Witness ==
    \E s \in Streams : fetched[s] = <<1, 1, 1, 2>> /\ Len(calls[s]) = 2

\* C3 as stated: a fetch failure in one poller does not terminate the poller
\* of another stream of the fleet.
C3_Original ==
    [][\A a, b \in Streams :
          (a # b /\ exc[b] = "FetchError" /\ pc[a] \in Suspended)
              => pc'[a] # "cancelled"]_vars

\* C3 amended: a fetch failure in bravo's poller does not itself change
\* alpha's poller or the stored snapshots, and a new snapshot alpha fetches
\* before the event loop is closed is still persisted by alpha; but the
\* failure ends the fleet: when the loop is closed alpha's poller is
\* cancelled in its sleep (and only then), and every stream starts again
\* with last_updated = 0 in the next fleet.
C3_Step ==
    \A a, b \in Streams :
        a # b =>
          /\ (exc[b] # "FetchError" /\ exc'[b] = "FetchError") =>
                /\ pc'[a] = pc[a]
                /\ last_updated'[a] = last_updated[a]
                /\ calls'[a] = calls[a]
                /\ files' = files
          /\ (exc[b] = "FetchError" /\ Wrote(a) /\ pc'[a] # "raised") =>
                /\ pc'[a] = "sleep_long"
                /\ last_updated'[a] > last_updated[a]
                /\ OutPath(day, a, last_updated'[a]) \in DOMAIN files'
          /\ (exc[b] = "FetchError" /\ orch = "closing" /\ orch' = "idle"
                /\ pc[a] \in Suspended) => pc'[a] = "cancelled"
          /\ (pc[a] # "cancelled" /\ pc'[a] = "cancelled") =>
                orch = "closing" /\ pc[a] \in Suspended
          /\ fleet' # fleet => last_updated'[a] = 0 /\ pc'[a] = "start"

C3_FailureEndsFleet == [][C3_Step]_vars

C3_Witness ==
    /\ exc["veoride"] = "FetchError"
    /\ pc["bird"] = "cancelled"
    /\ calls["bird"] = <<2>>
    /\ OutPath(day, "bird", 2) \in DOMAIN files

\* C4: after every stream error the whole group terminates and a complete
\* new fleet, every poller with last_updated = 0, is eventually running.
C4_Original ==
    \A n \in 1..(MaxFleets - 1) :
        (fleet = n /\ \E s \in {"bird", "veoride"} : pc[s] = "raised")
            ~> (fleet = n + 1 /\ orch = "running")

\* C5: a write_to_file for a (stream, marker) whose record already exists
\* leaves the stored record as it was.
C5_Original == [][\A p \in DOMAIN files : files'[p] = files[p]]_vars

\* C6: over the whole execution, restarts included, each (stream, marker)
\* pair is written by the sink at most once: a marker already persisted for
\* a stream is never persisted again for it.
C6_Original ==
    [][\A s \in Streams :
          (Wrote(s) /\ pc'[s] = "sleep_long") => last_updated'[s] \notin Persisted(s)]_vars

\* C7: a fetched payload with neither "last_updated" nor "lastUpdated" makes
\* the iteration fail with an error that leaves the poller: it is not taken
\* as stale, nothing is persisted, last_updated is unchanged, no sleep is
\* taken and the task does not poll again.
C7_Raises ==
    \A s \in Streams :
        LET r == PollResult(NoMarker, last_updated[s])
        IN  r.kind = "KeyError" /\ r.last = last_updated[s]

C7_Step ==
    \A s \in Streams :
        /\ (Returned(s) /\ exc'[s] = "KeyError") =>
              /\ pc'[s] = "raised"
              /\ last_updated'[s] = last_updated[s]
              /\ fetched'[s] = fetched[s]
              /\ calls' = calls
              /\ files' = files
              /\ sleep_arg'[s] = 0
        /\ (exc[s] = "KeyError" /\ fleet' = fleet) =>
              pc'[s] = "raised" /\ exc'[s] = "KeyError" /\ polls' = polls

C7_MissingMarkerPropagates == []C7_Raises /\ [][C7_Step]_vars

C7_Witness ==
    \E s \in Streams :
        /\ exc[s] = "KeyError"
        /\ pc[s] = "raised"
        /\ last_updated[s] = 1
        /\ calls[s] = <<1>>

\* C8: for every marker v and every last_updated, a payload that lacks
\* "last_updated" and carries "lastUpdated" = v is handled like a payload
\* carrying "last_updated" = v: same new/stale decision, same storage key,
\* same resulting last_updated.
C8_Decision ==
    \A s \in Streams : \A v \in Markers :
        LET a == PollResult(Alternate(v), last_updated[s])
            c == PollResult(Canonical(v), last_updated[s])
        IN  /\ a.kind = c.kind
            /\ c.kind \in {"new", "stale"}
            /\ a.marker = c.marker
            /\ a.last = c.last
            /\ OutPath(day, s, a.marker) = OutPath(day, s, c.marker)

\* a snapshot written from the alternate key is stored under that value,
\* which is also the new last_updated
C8_Step ==
    \A s \in Streams :
        (Wrote(s) /\ pc'[s] = "sleep_long") =>
            LET path == OutPath(day, s, last_updated'[s])
            IN  /\ path \in DOMAIN files'
                /\ files'[path]["last_updated"] = last_updated'[s]
                /\ "lastUpdated" \in DOMAIN files'[path] =>
                      files'[path]["lastUpdated"] = last_updated'[s]

C8_AlternateKeyAsCanonical == []C8_Decision /\ [][C8_Step]_vars

C8_Witness ==
    \E s \in Streams :
        /\ pc[s] = "sleep_long"
        /\ last_updated[s] = 2
        /\ OutPath(day, s, 2) \in DOMAIN files
        /\ files[OutPath(day, s, 2)] = Normalize(Alternate(2))

\* C9: a StreamParams built with cooldown = 0 has cooldown = 15, any other
\* cooldown is kept, and no poller computes its long sleep from cooldown 0.
C9_ZeroCooldownReplaced ==
    \A s \in Streams :
        /\ stream_params[s] = (IF cfg[s] = 0 THEN 15 ELSE cfg[s])
        /\ stream_params[s] # 0
        /\ pc[s] = "sleep_long" =>
              sleep_arg[s] = 2 * (stream_params[s] - 1) /\ sleep_arg[s] # 2 * (0 - 1)

C9_Witness ==
    \E s \in Streams :
        cfg[s] = 0 /\ stream_params[s] = 15 /\ pc[s] = "sleep_long" /\ sleep_arg[s] = 28

\* C10 as stated: within one stream, over the whole execution, every marker
\* passed to the sink is strictly greater than every marker persisted
\* earlier for that stream.
C10_Original ==
    [][\A s \in Streams :
          Wrote(s) => \A m \in Persisted(s) : m < last_updated'[s]]_vars

\* C10 amended: within one stream the markers passed to the sink by one
\* poller (one fleet) are strictly increasing; a restart of the fleet resets
\* last_updated to 0, so the poller of the next fleet can pass a marker that
\* is not greater than those persisted before the restart.  No order holds
\* between streams.
C10_IncreasingPerPoller ==
    \A s \in Streams :
        /\ StrictlyIncreasing(calls[s])
        /\ Len(calls[s]) > 0 => last_updated[s] = calls[s][Len(calls[s])]

C10_Witness ==
    /\ calls["veoride"] = <<1, 2>>
    /\ calls["bird"] = << >>
    /\ fleet = 2

\* C11: for the lifetime of one poller last_updated starts at 0 and never
\* decreases: every step of the poller leaves it greater than or equal to
\* what it was, whatever the fetched markers are (backwards, zero or
\* negative ones included).
C11_Decision ==
    \A s \in Streams : \A m \in (0 - 1)..MaxMarker : \A k \in SUBSET Keys :
        PollResult([x \in k |-> m], last_updated[s]).last >= last_updated[s]

C11_Step ==
    \A s \in Streams :
        /\ pc'[s] = "start" => last_updated'[s] = 0
        /\ fleet' = fleet => last_updated'[s] >= last_updated[s]

C11_NeverDecreases == []C11_Decision /\ [][C11_Step]_vars

C11_Witness ==
    \E s \in Streams :
        /\ Len(fetched[s]) = 3
        /\ fetched[s][1] = 2
        /\ fetched[s][2] = 1
        /\ fetched[s][3] = 0
        /\ last_updated[s] = 2

\* C12: last_updated is changed only after write_to_file has written the
\* payload with that marker: in every state last_updated is 0 or the marker
\* of a snapshot this poller has written, and after a write_to_file that
\* failed with an I/O error last_updated has not been advanced to the marker
\* of the failed payload.
C12_Original ==
    \A s \in Streams :
        /\ last_updated[s] = 0 \/ last_updated[s] \in Persisted(s)
        /\ exc[s] = "OSError" =>
              \A i \in 1..Len(calls[s]) :
                  calls[s][i] = last_updated[s] => calls[s][i] \in Persisted(s)

\* C13: every iteration that ends without an error performs exactly one
\* sleep before the next fetch; after new data was written the task stays
\* suspended for max(cooldown - 1, 0), never a negative time, for every
\* cooldown the poller can be given; after a stale payload for the fixed
\* 0.5; the long sleep is never taken after a stale poll nor the short one
\* after new data.  Durations are counted in halves of a unit.
C13_Step ==
    \A s \in Streams :
        /\ (Returned(s) /\ exc'[s] = NoExc) =>
              /\ pc'[s] \in {"sleep_long", "sleep_short"}
              /\ SleepDuration(sleep_arg'[s]) >= 0
              /\ Wrote(s) =>
                    /\ pc'[s] = "sleep_long"
                    /\ SleepDuration(sleep_arg'[s]) =
                          (IF stream_params[s] - 1 > 0
                           THEN 2 * (stream_params[s] - 1) ELSE 0)
              /\ ~Wrote(s) =>
                    /\ pc'[s] = "sleep_short"
                    /\ SleepDuration(sleep_arg'[s]) = 1
        /\ (pc'[s] = "fetching" /\ pc[s] # "fetching") => pc[s] \in Suspended
        /\ (pc'[s] \in {"sleep_long", "sleep_short"} /\ pc'[s] # pc[s]) =>
              pc[s] = "fetching"

C13_OneSleepPerIteration == [][C13_Step]_vars

C13_Witness ==
    \E s \in Streams :
        /\ stream_params[s] = 0 - 1
        /\ pc[s] = "sleep_long"
        /\ sleep_arg[s] = 0 - 4
        /\ SleepDuration(sleep_arg[s]) = 0
        /\ fetched[s] = <<1, 1, 2>>

\* C14: a task yields to the scheduler during its network call as well as
\* during its sleeps: while the request of one stream is in flight, the
\* poller of another stream that is ready to run can take its step.
C14_Original ==
    \A a, b \in Streams :
        ( /\ a # b
          /\ orch = "running"
          /\ pc[a] = "fetching"
          /\ pc[b] \in Suspended )
        => ENABLED BeginPoll(b)

\* C15: every fetch is bounded: a request that was started always
\* eventually completes, with a payload or with a fetch error, so no task
\* stays in its fetch forever.
C15_Original ==
    \A s \in {"bird", "veoride"} : (pc[s] = "fetching") ~> (pc[s] # "fetching")

\* C16: the window (hour < 22) is tested at the top of every iteration and
\* only there: a poller never starts a fetch while the window is closed; a
\* poller that finds it closed returns, without an error and without writing;
\* a fetch that began while the window was open is completed, with its write,
\* and not aborted when the window closes.
C16_InFlight ==
    \A s \in Streams :
        (pc[s] = "fetching" /\ polls < PollBudget) =>
            ENABLED FetchReturn(s, Canonical(MaxMarker), "ok")

C16_Step ==
    \A s \in Streams :
        /\ (pc'[s] = "fetching" /\ pc[s] # "fetching") => window
        /\ (pc[s] \in Suspended /\ pc'[s] \notin Suspended \cup {"cancelled"}) =>
              IF window
              THEN pc'[s] = "fetching"
              ELSE /\ pc'[s] = "returned"
                   /\ exc'[s] = NoExc
                   /\ files' = files
                   /\ calls' = calls
                   /\ last_updated' = last_updated
        /\ (pc'[s] = "returned" /\ pc[s] # "returned") =>
              pc[s] \in Suspended /\ ~window
        /\ (pc[s] = "fetching" /\ pc'[s] # "fetching") =>
              /\ pc'[s] \in {"sleep_long", "sleep_short", "raised"}
              /\ (Wrote(s) /\ pc'[s] = "sleep_long") =>
                    OutPath(day, s, last_updated'[s]) \in DOMAIN files'
        /\ window' # window => pc' = pc /\ files' = files /\ running' = running

C16_WindowAtLoopTop == []C16_InFlight /\ [][C16_Step]_vars

C16_Witness ==
    \E s \in Streams :
        /\ ~window
        /\ pc[s] = "returned"
        /\ exc[s] = NoExc
        /\ calls[s] = <<1>>
        /\ fetched[s] = <<1, 1>>

\* C17: the alternate key is copied into the canonical field only when the
\* canonical field is absent: for a payload with both "last_updated" = a and
\* "lastUpdated" = b the marker of the freshness check and of the storage
\* key is the canonical value a.
C17_Original ==
    \A s \in Streams : \A a, b \in Markers :
        pc[s] = "fetching" =>
            LET both == [k \in Keys |-> IF k = "last_updated" THEN a ELSE b]
                r    == PollResult(both, last_updated[s])
            IN  /\ r.marker = a
                /\ r.kind = PollResult(Canonical(a), last_updated[s]).kind
                /\ r.data["last_updated"] = a

\* C18: a negative cooldown is rejected when the program starts: if a
\* configured stream has cooldown < 0 no poller is started and no fetch is
\* issued, and no running poller ever has a negative cooldown.
C18_Original ==
    \A s \in Streams :
        /\ (\E x \in Streams : cfg[x] < 0) => pc[s] = NoTask /\ polls = 0
        /\ pc[s] # NoTask => stream_params[s] >= 0

\* C19: at every point of every execution, restarts included, there is at
\* most one live poller per stream: when a fleet ends because a poller
\* failed, every other poller of the fleet is cancelled, only while it is
\* suspended in a sleep and never between its fetch and its write, and has
\* stopped before a poller of the next fleet takes a step; two pollers never
\* write at the same time.
C19_NoneLiveBetweenFleets ==
    /\ orch = "idle" => \A s \in Streams : pc[s] \in Finished \cup {NoTask}
    /\ orch # "running" => running = Idle
    /\ \A s \in Streams : running = s <=> pc[s] = "fetching"

C19_Step ==
    \A s \in Streams :
        /\ (pc'[s] = "cancelled" /\ pc[s] # "cancelled") =>
              /\ pc[s] \in {"sleep_long", "sleep_short"}
              /\ orch = "closing"
              /\ \A t \in Streams : pc[t] # "fetching"
        /\ fleet' # fleet =>
              /\ pc[s] \in Finished \cup {NoTask}
              /\ pc'[s] = "start"
        /\ (pc[s] \in Suspended \cup {"fetching"} /\ pc'[s] \notin {pc[s], "cancelled"}) =>
              orch = "running" /\ fleet' = fleet
        /\ Wrote(s) =>
              /\ running = s
              /\ \A t \in Streams \ {s} : pc'[t] = pc[t] /\ calls'[t] = calls[t]

C19_OneLivePollerPerStream == []C19_NoneLiveBetweenFleets /\ [][C19_Step]_vars

C19_Witness ==
    /\ orch = "idle"
    /\ fleet = 1
    /\ exc["bird"] = "KeyError"
    /\ pc["veoride"] = "cancelled"
    /\ calls["veoride"] = <<1>>

\* C20: the loop of __main__ never ends and a closed window is not final:
\* while the window is closed every fleet returns at once without a fetch
\* or a write, and once it is open again the streams are polled by a fleet
\* whose pollers started with last_updated = 0, so the first payload with a
\* marker > 0 that a stream receives after the reopening is written, even
\* if that marker was written before the window closed: a poller at work
\* after a reopening that has not written since has last_updated = 0.
C20_Original ==
    \A s \in Streams :
        ( /\ day > 1
          /\ window
          /\ orch = "running"
          /\ pc[s] \in Suspended \cup {"fetching"}
          /\ \A m \in Markers : OutPath(day, s, m) \notin DOMAIN files )
        => last_updated[s] = 0
====
